---- MODULE Spec2Model ----
(***************************************************************************)
(* The comms builder of tari (comms/src/builder/builder.rs): CommsBuilder  *)
(* accumulates optional configuration, build() constructs the services in  *)
(* order and yields a CommsServiceContainer, start() turns it into         *)
(* CommsServices, and shutdown() tears the services down and aggregates    *)
(* the results.  Every statement of build(), start() and shutdown() that   *)
(* calls a collaborator is one step; pc is the position of the single      *)
(* thread that owns the instance (all three take self by value).           *)
(***************************************************************************)
EXTENDS Integers, Sequences, FiniteSets, TLC

\* ---------------------------------------------------------------- bounds
\* message types the caller may register or ask for: 1..MaxKeys
MaxKeys == 3
\* InprocAddress::random() may be called this many times in one run
MaxToken == 8
\* node instances constructed one after the other
MaxInstances == 2
\* ConnectionManager::shutdown() returns at most this many sub-results
MaxCmResults == 1
\* create_connector calls on one CommsServices
MaxConnectorCalls == 1

Keys == 1..MaxKeys

\* ------------------------------------------------------------- addresses
\* InprocAddress::default(): the value is_default() recognises
DefaultAddress == 0
\* an address the caller made up itself (InprocAddress from a string)
CallerAddress == 100
\* "no address": no bind attempted / nothing wired yet
NoAddress == 0 - 1

\* InprocAddress::random(): the r-th call returns a token never returned
\* before, different from the default and from caller-made addresses.
InprocAddress_random(r) == r + 1

\* Option<T>
None == [some |-> FALSE, val |-> NoAddress]
Some(v) == [some |-> TRUE, val |-> v]

\* ---------------------------------------------------------------- routes
\* CommsRoutes::new().register(k1).register(k2)...: every registered key
\* gets its own random address.  The table is a set of <<key, address>>.
Rank(k, S) == Cardinality({j \in S : j < k})
CommsRoutes_register(S, r) == {<<k, InprocAddress_random(r + Rank(k, S))>> : k \in S}

\* CommsRoutes::get_address
get_address(table, k) ==
    IF \E p \in table : p[1] = k
    THEN Some((CHOOSE p \in table : p[1] = k)[2])
    ELSE None

NoRoutes == [some |-> FALSE, inner |-> {}]
SomeRoutes(t) == [some |-> TRUE, inner |-> t]

\* -------------------------------------------------------------- services
Services == {"PeerManager", "ControlService", "ConnectionManager",
             "OutboundMessageService", "OutboundMessagePool",
             "InboundMessageBroker", "InboundMessageService"}

NoWiring == [cm_sink |-> NoAddress, oms_sink |-> NoAddress,
             omp_in |-> NoAddress, omp_out |-> NoAddress,
             ims_sink |-> NoAddress, broker |-> {}]

NoConnector == [key |-> 0, result |-> "none", bind |-> NoAddress, listen |-> "none"]

VARIABLES
    pc,                     \* position of the owning thread
    instance,               \* which node instance this is (1..MaxInstances)
    rng,                    \* number of InprocAddress::random() calls so far
    \* CommsBuilder fields
    peer_storage_factory,   \* Option<Box<Factory>>: set or not
    routes,                 \* Option<CommsRoutes>
    control_service_config, \* Option<ControlServiceConfig>: set or not
    omp_config,             \* Option<OutboundMessagePoolConfig>: set or not
    node_identity,          \* Option<NodeIdentity>: set or not
    peer_conn_config,       \* Option<PeerConnectionConfig>: its sink address
    \* locals of build(), then fields of the container / CommsServices
    given,                  \* the builder's slots as build() found them (until start())
    peer_conn_config_l,     \* let peer_conn_config (message_sink_address)
    outbound_sink,          \* let outbound_message_sink_address
    routes_c,               \* routes of the container / CommsServices
    svc,                    \* state of each service
    wiring,                 \* the addresses each service was constructed with
    cm_holders,             \* who holds an Arc<ConnectionManager>
    control_service_handle, \* Option<ControlServiceHandle>: present or not
    \* results
    build_result, start_result, shutdown_result,
    shutdown_results,       \* let mut shutdown_results
    reclaimed,              \* outcome of Arc::try_unwrap: "none"|"Ok"|"Err"
    sole_holder,            \* shutdown() was called with no other holder of the Arc
    connector,              \* the last create_connector call: its key, the address it
                            \* bound, what DomainConnector::listen said, its result
    connector_calls,
    events,                 \* what the instance did to its collaborators, in order
    earlier,                   \* the sink addresses of the container built before this
                            \* instance, when the caller still holds it
    calls                   \* how often build/start/shutdown were called

vars == <<pc, instance, rng, peer_storage_factory, routes, control_service_config,
          omp_config, node_identity, peer_conn_config, given, peer_conn_config_l,
          outbound_sink, routes_c, svc, wiring, cm_holders, control_service_handle,
          build_result, start_result, shutdown_result, shutdown_results, reclaimed,
          sole_holder, connector, connector_calls, events, earlier, calls>>

builder_fields == <<peer_storage_factory, routes, control_service_config, omp_config,
                    node_identity, peer_conn_config>>
results == <<build_result, start_result, shutdown_result>>
running_fields == <<shutdown_results, reclaimed, sole_holder, connector, connector_calls>>

NoSlots == [peer_storage_factory |-> FALSE, routes |-> NoRoutes,
            control_service_config |-> FALSE, omp_config |-> FALSE,
            node_identity |-> FALSE, peer_conn_config |-> None]

NoCalls == [build |-> 0, start |-> 0, shutdown |-> 0]

NoPast == [built |-> FALSE, inbound |-> NoAddress, outbound |-> NoAddress,
           supplied |-> FALSE]

\* CommsBuilder::new(): every slot None
new ==
    /\ pc = "builder"
    /\ peer_storage_factory = FALSE
    /\ routes = NoRoutes
    /\ control_service_config = FALSE
    /\ omp_config = FALSE
    /\ node_identity = FALSE
    /\ peer_conn_config = None
    /\ given = NoSlots
    /\ peer_conn_config_l = NoAddress
    /\ outbound_sink = NoAddress
    /\ routes_c = {}
    /\ svc = [s \in Services |-> "absent"]
    /\ wiring = NoWiring
    /\ cm_holders = {}
    /\ control_service_handle = FALSE
    /\ build_result = "none"
    /\ start_result = "none"
    /\ shutdown_result = "none"
    /\ shutdown_results = <<>>
    /\ reclaimed = "none"
    /\ sole_holder = FALSE
    /\ connector = NoConnector
    /\ connector_calls = 0
    /\ events = <<>>
    /\ calls = NoCalls

Init ==
    /\ new
    /\ instance = 1
    /\ rng = 0
    /\ earlier = NoPast

\* ------------------------------------------------------- builder setters
owned == <<given, peer_conn_config_l, outbound_sink, routes_c, svc, wiring, cm_holders,
           control_service_handle, events, calls>>

with_routes ==
    /\ pc = "builder"
    /\ \E S \in SUBSET Keys :
        /\ rng + Cardinality(S) <= MaxToken
        /\ routes' = SomeRoutes(CommsRoutes_register(S, rng))
        /\ rng' = rng + Cardinality(S)
    /\ UNCHANGED <<pc, instance, earlier, peer_storage_factory, control_service_config, omp_config,
                   node_identity, peer_conn_config, owned, results, running_fields>>

with_peer_storage ==
    /\ pc = "builder"
    /\ peer_storage_factory' = TRUE
    /\ UNCHANGED <<pc, instance, earlier, rng, routes, control_service_config, omp_config,
                   node_identity, peer_conn_config, owned, results, running_fields>>

configure_control_service ==
    /\ pc = "builder"
    /\ control_service_config' = TRUE
    /\ UNCHANGED <<pc, instance, earlier, rng, peer_storage_factory, routes, omp_config,
                   node_identity, peer_conn_config, owned, results, running_fields>>

configure_outbound_message_pool ==
    /\ pc = "builder"
    /\ omp_config' = TRUE
    /\ UNCHANGED <<pc, instance, earlier, rng, peer_storage_factory, routes, control_service_config,
                   node_identity, peer_conn_config, owned, results, running_fields>>

with_node_identity ==
    /\ pc = "builder"
    /\ node_identity' = TRUE
    /\ UNCHANGED <<pc, instance, earlier, rng, peer_storage_factory, routes, control_service_config,
                   omp_config, peer_conn_config, owned, results, running_fields>>

\* the addresses a caller can put into a PeerConnectionConfig: the default
\* one, one of its own making, or one it read from the routes it registered
CallerAddresses == {DefaultAddress, CallerAddress} \cup {p[2] : p \in routes.inner}

configure_peer_connections ==
    /\ pc = "builder"
    /\ \E a \in CallerAddresses : peer_conn_config' = Some(a)
    /\ UNCHANGED <<pc, instance, earlier, rng, peer_storage_factory, routes, control_service_config,
                   omp_config, node_identity, owned, results, running_fields>>

\* ------------------------------------------------------------- build()
Ok == [ok |-> TRUE, err |-> "none"]
Err(e) == [ok |-> FALSE, err |-> e]

Slots == [peer_storage_factory |-> peer_storage_factory, routes |-> routes,
          control_service_config |-> control_service_config, omp_config |-> omp_config,
          node_identity |-> node_identity, peer_conn_config |-> peer_conn_config]

\* a missing identity is not reported (unwrap_or_default instead of ok_or)
make_node_identity_unchecked(identity) == Ok

\* self.node_identity.take().map(Arc::new).ok_or(NodeIdentityNotSet)
make_node_identity(identity) ==
    IF identity THEN Ok ELSE Err("NodeIdentityNotSet")

\* PeerManager::new(storage).map_err(PeerManagerError)
make_peer_manager(created) ==
    IF created THEN Ok ELSE Err("PeerManagerError")

\* InprocAddress::is_default
is_default(a) == a = DefaultAddress

\* the sink address is replaced by a random one whether it is the default or not
make_peer_connection_config_overwriting(config, r) ==
    [message_sink_address |-> InprocAddress_random(r), rng |-> r + 1]

\* a default sink address is replaced by one fixed address, not a random one
make_peer_connection_config_fixed(config, r) ==
    LET message_sink_address == IF config.some THEN config.val ELSE DefaultAddress
    IN  [message_sink_address |-> IF is_default(message_sink_address) THEN CallerAddress
                                  ELSE message_sink_address,
         rng |-> r]

\* self.peer_conn_config.take().unwrap_or_default(), then the sink address
\* is replaced by a random one if it is the default one
make_peer_connection_config(config, r) ==
    LET message_sink_address == IF config.some THEN config.val ELSE DefaultAddress
    IN  IF is_default(message_sink_address)
        THEN [message_sink_address |-> InprocAddress_random(r), rng |-> r + 1]
        ELSE [message_sink_address |-> message_sink_address, rng |-> r]

\* a control service is constructed from a default config when none was given
make_control_service_defaulting(config) == "constructed"

\* self.control_service_config.take().map(|config| ControlService::new(..))
make_control_service(config) ==
    IF config THEN "constructed" ELSE "absent"

\* OutboundMessageService::new(..).map_err(OutboundMessageServiceError)
make_outbound_message_service(created) ==
    IF created THEN Ok ELSE Err("OutboundMessageServiceError")

\* the pool is given the sink address as its intake only; its requeue
\* address is left at the default
make_outbound_message_pool_split(message_sink_address, created) ==
    IF created
    THEN [ok |-> TRUE, err |-> "none",
          omp_in |-> message_sink_address, omp_out |-> DefaultAddress]
    ELSE [ok |-> FALSE, err |-> "OutboundMessagePoolError",
          omp_in |-> NoAddress, omp_out |-> NoAddress]

\* a failure of the pool is reported as a failure of the outbound message service
make_outbound_message_pool_wrong_error(message_sink_address, created) ==
    IF created
    THEN [ok |-> TRUE, err |-> "none",
          omp_in |-> message_sink_address, omp_out |-> message_sink_address]
    ELSE [ok |-> FALSE, err |-> "OutboundMessageServiceError",
          omp_in |-> NoAddress, omp_out |-> NoAddress]

\* OutboundMessagePool::new(config, ctx, sink, sink, ..): the two addresses
\* the pool is given, and the error its failure maps to
make_outbound_message_pool(message_sink_address, created) ==
    IF created
    THEN [ok |-> TRUE, err |-> "none",
          omp_in |-> message_sink_address, omp_out |-> message_sink_address]
    ELSE [ok |-> FALSE, err |-> "OutboundMessagePoolError",
          omp_in |-> NoAddress, omp_out |-> NoAddress]

\* missing routes are not reported (unwrap_or_default instead of ok_or)
take_routes_unchecked(r) == Ok

\* self.routes.take().ok_or(RoutesNotDefined)
take_routes(r) ==
    IF r.some THEN Ok ELSE Err("RoutesNotDefined")

\* routes.inner().iter().fold(InboundMessageBroker::new(..), |b, (t, a)| b.route(t, a))
make_inbound_message_broker(table) ==
    {<<p[1], p[2]>> : p \in table}

\* InboundMessageService::new(..).map_err(InboundMessageServiceError)
make_inbound_message_service(created) ==
    IF created THEN Ok ELSE Err("InboundMessageServiceError")

\* build(&mut self): a failed build leaves the builder with the caller
build_fails_keeping_builder(e) ==
    /\ pc' = "builder"
    /\ build_result' = e

\* an Err(..)? return from build(): the builder and every local are gone
build_fails(e) ==
    /\ pc' = "build_failed"
    /\ build_result' = e

\* build(), line 294: let node_identity = self.make_node_identity()?
build ==
    /\ pc = "builder"
    /\ rng + 2 <= MaxToken
    /\ calls' = [calls EXCEPT !.build = @ + 1]
    /\ given' = Slots
    /\ node_identity' = FALSE
    /\ LET r == make_node_identity(node_identity)
       IN  IF r.ok
           THEN pc' = "make_peer_manager" /\ build_result' = build_result
           ELSE build_fails(r.err)
    /\ UNCHANGED <<instance, earlier, rng, peer_storage_factory, routes, control_service_config,
                   omp_config, peer_conn_config, peer_conn_config_l, outbound_sink,
                   routes_c, svc, wiring, cm_holders, control_service_handle, events,
                   start_result, shutdown_result, running_fields>>

\* line 296: let peer_manager = self.make_peer_manager()?
build_peer_manager ==
    /\ pc = "make_peer_manager"
    /\ peer_storage_factory' = FALSE
    /\ \E created \in BOOLEAN :
        LET r == make_peer_manager(created)
            made == IF peer_storage_factory THEN <<"Factory::make">> ELSE <<>>
        IN  IF r.ok
            THEN /\ pc' = "make_peer_connection_config"
                 /\ svc' = [svc EXCEPT !["PeerManager"] = "constructed"]
                 /\ events' = events \o made \o <<"PeerManager::new">>
                 /\ build_result' = build_result
            ELSE /\ build_fails(r.err)
                 /\ events' = events \o made
                 /\ svc' = svc
    /\ UNCHANGED <<instance, earlier, rng, routes, control_service_config, omp_config, node_identity,
                   peer_conn_config, given, peer_conn_config_l, outbound_sink, routes_c,
                   wiring, cm_holders, control_service_handle, calls,
                   start_result, shutdown_result, running_fields>>

\* line 298: let peer_conn_config = self.make_peer_connection_config()
build_peer_connection_config ==
    /\ pc = "make_peer_connection_config"
    /\ LET c == make_peer_connection_config(peer_conn_config, rng)
       IN  /\ peer_conn_config_l' = c.message_sink_address
           /\ rng' = c.rng
    /\ peer_conn_config' = None
    /\ pc' = "make_control_service"
    /\ UNCHANGED <<instance, earlier, peer_storage_factory, routes, control_service_config,
                   omp_config, node_identity, given, outbound_sink, routes_c, svc, wiring,
                   cm_holders, control_service_handle, events, calls, results,
                   running_fields>>

\* line 300: let control_service = self.make_control_service(node_identity.clone())
build_control_service ==
    /\ pc = "make_control_service"
    /\ svc' = [svc EXCEPT !["ControlService"] = make_control_service(control_service_config)]
    /\ events' = IF make_control_service(control_service_config) = "constructed"
                 THEN Append(events, "ControlService::new") ELSE events
    /\ control_service_config' = FALSE
    /\ pc' = "make_connection_manager"
    /\ UNCHANGED <<instance, earlier, rng, peer_storage_factory, routes, omp_config, node_identity,
                   peer_conn_config, given, peer_conn_config_l, outbound_sink, routes_c,
                   wiring, cm_holders, control_service_handle, calls, results,
                   running_fields>>

\* the connection manager is constructed with the peer connection config as
\* the caller gave it, before the default sink address is replaced
build_connection_manager_unfinalized ==
    /\ pc = "make_connection_manager"
    /\ svc' = [svc EXCEPT !["ConnectionManager"] = "constructed"]
    /\ wiring' = [wiring EXCEPT !.cm_sink = IF given.peer_conn_config.some
                                            THEN given.peer_conn_config.val
                                            ELSE DefaultAddress]
    /\ cm_holders' = {"self"}
    /\ events' = Append(events, "ConnectionManager::new")
    /\ pc' = "make_outbound_message_service"
    /\ UNCHANGED <<instance, earlier, rng, builder_fields, given, peer_conn_config_l, outbound_sink,
                   routes_c, control_service_handle, calls, results, running_fields>>

\* lines 302-303: let connection_manager = self.make_connection_manager(.., peer_conn_config.clone())
build_connection_manager ==
    /\ pc = "make_connection_manager"
    /\ svc' = [svc EXCEPT !["ConnectionManager"] = "constructed"]
    /\ wiring' = [wiring EXCEPT !.cm_sink = peer_conn_config_l]
    /\ cm_holders' = {"self"}
    /\ events' = Append(events, "ConnectionManager::new")
    /\ pc' = "make_outbound_message_service"
    /\ UNCHANGED <<instance, earlier, rng, builder_fields, given, peer_conn_config_l, outbound_sink,
                   routes_c, control_service_handle, calls, results, running_fields>>

\* the outbound message service is handed a clone of the connection manager too
build_outbound_message_service_sharing ==
    /\ pc = "make_outbound_message_service"
    /\ outbound_sink' = InprocAddress_random(rng)
    /\ rng' = rng + 1
    /\ \E created \in BOOLEAN :
        LET r == make_outbound_message_service(created)
        IN  IF r.ok
            THEN /\ pc' = "make_outbound_message_pool"
                 /\ svc' = [svc EXCEPT !["OutboundMessageService"] = "constructed"]
                 /\ wiring' = [wiring EXCEPT !.oms_sink = outbound_sink']
                 /\ events' = Append(events, "OutboundMessageService::new")
                 /\ build_result' = build_result
                 /\ cm_holders' = cm_holders \cup {"OutboundMessageService"}
            ELSE /\ build_fails(r.err)
                 /\ UNCHANGED <<svc, wiring, events, cm_holders>>
    /\ UNCHANGED <<instance, earlier, builder_fields, given, peer_conn_config_l, routes_c,
                   control_service_handle, calls,
                   start_result, shutdown_result, running_fields>>

\* lines 305-310: let outbound_message_sink_address = InprocAddress::random();
\*                let outbound_message_service = self.make_outbound_message_service(..)?
build_outbound_message_service ==
    /\ pc = "make_outbound_message_service"
    /\ outbound_sink' = InprocAddress_random(rng)
    /\ rng' = rng + 1
    /\ \E created \in BOOLEAN :
        LET r == make_outbound_message_service(created)
        IN  IF r.ok
            THEN /\ pc' = "make_outbound_message_pool"
                 /\ svc' = [svc EXCEPT !["OutboundMessageService"] = "constructed"]
                 /\ wiring' = [wiring EXCEPT !.oms_sink = outbound_sink']
                 /\ events' = Append(events, "OutboundMessageService::new")
                 /\ build_result' = build_result
            ELSE /\ build_fails(r.err)
                 /\ UNCHANGED <<svc, wiring, events>>
    /\ UNCHANGED <<instance, earlier, builder_fields, given, peer_conn_config_l, routes_c,
                   cm_holders, control_service_handle, calls,
                   start_result, shutdown_result, running_fields>>

\* lines 312-316: let outbound_message_pool = self.make_outbound_message_pool(
\*                    outbound_message_sink_address, .., connection_manager.clone())?
build_outbound_message_pool ==
    /\ pc = "make_outbound_message_pool"
    /\ omp_config' = FALSE
    /\ \E created \in BOOLEAN :
        LET r == make_outbound_message_pool(outbound_sink, created)
        IN  IF r.ok
            THEN /\ pc' = "take_routes"
                 /\ svc' = [svc EXCEPT !["OutboundMessagePool"] = "constructed"]
                 /\ wiring' = [wiring EXCEPT !.omp_in = r.omp_in, !.omp_out = r.omp_out]
                 /\ cm_holders' = cm_holders \cup {"OutboundMessagePool"}
                 /\ events' = Append(events, "OutboundMessagePool::new")
                 /\ build_result' = build_result
            ELSE /\ build_fails(r.err)
                 /\ UNCHANGED <<svc, wiring, cm_holders, events>>
    /\ UNCHANGED <<instance, earlier, rng, peer_storage_factory, routes, control_service_config,
                   node_identity, peer_conn_config, given, peer_conn_config_l,
                   outbound_sink, routes_c, control_service_handle, calls,
                   start_result, shutdown_result, running_fields>>

\* line 318: let routes = self.routes.take().ok_or(RoutesNotDefined)?
build_routes ==
    /\ pc = "take_routes"
    /\ routes' = NoRoutes
    /\ LET r == take_routes(routes)
       IN  IF r.ok
           THEN /\ pc' = "make_inbound_message_broker"
                /\ routes_c' = routes.inner
                /\ build_result' = build_result
           ELSE /\ build_fails(r.err)
                /\ routes_c' = routes_c
    /\ UNCHANGED <<instance, earlier, rng, peer_storage_factory, control_service_config, omp_config,
                   node_identity, peer_conn_config, given, peer_conn_config_l,
                   outbound_sink, svc, wiring, cm_holders, control_service_handle, events,
                   calls, start_result, shutdown_result, running_fields>>

\* line 320: let inbound_message_broker = self.make_inbound_message_broker(&routes)
build_inbound_message_broker ==
    /\ pc = "make_inbound_message_broker"
    /\ svc' = [svc EXCEPT !["InboundMessageBroker"] = "constructed"]
    /\ wiring' = [wiring EXCEPT !.broker = make_inbound_message_broker(routes_c)]
    /\ events' = Append(events, "InboundMessageBroker::new")
    /\ pc' = "make_inbound_message_service"
    /\ UNCHANGED <<instance, earlier, rng, builder_fields, given, peer_conn_config_l, outbound_sink,
                   routes_c, cm_holders, control_service_handle, calls, results,
                   running_fields>>

\* lines 322-338: let inbound_message_service = self.make_inbound_message_service(
\*                    node_identity, peer_conn_config.message_sink_address, ..)?;
\*                Ok(CommsServiceContainer { .. })
build_inbound_message_service ==
    /\ pc = "make_inbound_message_service"
    /\ \E created \in BOOLEAN :
        LET r == make_inbound_message_service(created)
        IN  IF r.ok
            THEN /\ pc' = "container"
                 /\ svc' = [svc EXCEPT !["InboundMessageService"] = "constructed"]
                 /\ wiring' = [wiring EXCEPT !.ims_sink = peer_conn_config_l]
                 /\ events' = Append(events, "InboundMessageService::new")
                 /\ build_result' = "Ok"
            ELSE /\ build_fails(r.err)
                 /\ UNCHANGED <<svc, wiring, events>>
    /\ UNCHANGED <<instance, earlier, rng, builder_fields, given, peer_conn_config_l, outbound_sink,
                   routes_c, cm_holders, control_service_handle, calls,
                   start_result, shutdown_result, running_fields>>

\* ------------------------------------------------------------- start()
\* the error of serve() is dropped (.ok() instead of ?) and start() goes on
serve_control_service_swallowing(control_service, served) ==
    [ok |-> TRUE, err |-> "none", handle |-> control_service = "constructed" /\ served]

\* if let Some(control_service) = self.control_service {
\*     control_service_handle = Some(control_service.serve(..).map_err(ControlServiceError)?) }
serve_control_service(control_service, served) ==
    IF control_service # "constructed" THEN [ok |-> TRUE, err |-> "none", handle |-> FALSE]
    ELSE IF served THEN [ok |-> TRUE, err |-> "none", handle |-> TRUE]
    ELSE [ok |-> FALSE, err |-> "ControlServiceError", handle |-> FALSE]

\* start(), lines 376-383
start ==
    /\ pc = "container"
    /\ calls' = [calls EXCEPT !.start = @ + 1]
    /\ \E served \in BOOLEAN :
        LET r == serve_control_service(svc["ControlService"], served)
        IN  /\ control_service_handle' = r.handle
            /\ IF r.ok
               THEN /\ pc' = "start_inbound_message_service"
                    /\ start_result' = start_result
               ELSE /\ pc' = "start_failed"
                    /\ start_result' = r.err
            /\ IF r.handle
               THEN /\ svc' = [svc EXCEPT !["ControlService"] = "running"]
                    /\ cm_holders' = cm_holders \cup {"ControlService"}
                    /\ events' = Append(events, "ControlService::serve")
               ELSE UNCHANGED <<svc, cm_holders, events>>
    /\ given' = NoSlots
    /\ UNCHANGED <<instance, earlier, rng, builder_fields, peer_conn_config_l, outbound_sink,
                   routes_c, wiring, build_result, shutdown_result, running_fields>>

\* the outbound message pool is started where the inbound message service should be
start_inbound_message_service_swapped ==
    /\ pc = "start_inbound_message_service"
    /\ svc' = [svc EXCEPT !["OutboundMessagePool"] = "running"]
    /\ events' = Append(events, "OutboundMessagePool::start")
    /\ pc' = "start_outbound_message_pool"
    /\ UNCHANGED <<instance, earlier, rng, builder_fields, given, peer_conn_config_l, outbound_sink,
                   routes_c, wiring, cm_holders, control_service_handle, calls, results,
                   running_fields>>

\* line 385: let ims_handle = self.inbound_message_service.start()
start_inbound_message_service ==
    /\ pc = "start_inbound_message_service"
    /\ svc' = [svc EXCEPT !["InboundMessageService"] = "running"]
    /\ events' = Append(events, "InboundMessageService::start")
    /\ pc' = "start_outbound_message_pool"
    /\ UNCHANGED <<instance, earlier, rng, builder_fields, given, peer_conn_config_l, outbound_sink,
                   routes_c, wiring, cm_holders, control_service_handle, calls, results,
                   running_fields>>

\* lines 386-398: self.outbound_message_pool.start(); Ok(CommsServices { .. })
start_outbound_message_pool ==
    /\ pc = "start_outbound_message_pool"
    /\ svc' = [svc EXCEPT !["OutboundMessagePool"] = "running"]
    /\ events' = Append(events, "OutboundMessagePool::start")
    /\ start_result' = "Ok"
    /\ pc' = "services"
    /\ UNCHANGED <<instance, earlier, rng, builder_fields, given, peer_conn_config_l, outbound_sink,
                   routes_c, wiring, cm_holders, control_service_handle, calls,
                   build_result, shutdown_result, running_fields>>

\* ------------------------------------------------------ CommsServices
\* an unregistered message type is bound to the default address
create_connector_defaulting(table, message_type, bound) ==
    LET addr == get_address(table, message_type)
    IN  [key |-> message_type,
         bind |-> IF addr.some THEN addr.val ELSE DefaultAddress,
         listen |-> IF bound THEN "Ok" ELSE "Err",
         result |-> IF bound THEN "Ok" ELSE "ConnectorError"]

\* create_connector: routes.get_address(message_type).ok_or(MessageTypeNotRegistered)?,
\* then DomainConnector::listen(ctx, &addr).map_err(ConnectorError)
create_connector(table, message_type, bound) ==
    LET addr == get_address(table, message_type)
    IN  IF ~addr.some
        THEN [key |-> message_type, result |-> "MessageTypeNotRegistered",
              bind |-> NoAddress, listen |-> "none"]
        ELSE [key |-> message_type, bind |-> addr.val,
              listen |-> IF bound THEN "Ok" ELSE "Err",
              result |-> IF bound THEN "Ok" ELSE "ConnectorError"]

services_create_connector ==
    /\ pc = "services"
    /\ connector_calls < MaxConnectorCalls
    /\ connector_calls' = connector_calls + 1
    /\ \E message_type \in Keys, bound \in BOOLEAN :
        connector' = create_connector(routes_c, message_type, bound)
    /\ UNCHANGED <<pc, instance, earlier, rng, builder_fields, owned, results, shutdown_results,
                   reclaimed, sole_holder>>

\* A service that was handed a clone of the Arc<ConnectionManager> drops it
\* (its thread ends, or it is itself dropped), at a time of its own choosing.
drop_connection_manager ==
    /\ pc \in {"services", "try_unwrap"}
    /\ \E h \in cm_holders \ {"self"} : cm_holders' = cm_holders \ {h}
    /\ UNCHANGED <<pc, instance, earlier, rng, builder_fields, given, peer_conn_config_l,
                   outbound_sink, routes_c, svc, wiring, control_service_handle, events,
                   calls, results, running_fields>>

\* ---------------------------------------------------------- shutdown()
\* result.map_err(CommsServicesError::ControlServiceError)
map_err(e, succeeded) == IF succeeded THEN "Ok" ELSE e

\* the reclaim succeeds only when nobody holds the Arc, self included
try_unwrap_off_by_one(holders) == IF holders = {} THEN "Ok" ELSE "Err"

\* the connection manager is taken out of the Arc whoever else holds it
try_unwrap_unchecked(holders) == "Ok"

\* Arc::try_unwrap(self.connection_manager): only the last holder gets it
try_unwrap(holders) == IF holders = {"self"} THEN "Ok" ELSE "Err"

\* sequences of at most n booleans
RECURSIVE BoolSeqs(_)
BoolSeqs(n) ==
    IF n = 0 THEN {<<>>}
    ELSE BoolSeqs(n - 1) \cup {Append(q, b) : q \in {x \in BoolSeqs(n - 1) : Len(x) = n - 1},
                                               b \in BOOLEAN}

\* has_error is overwritten by every result, so only the last one counts
check_clean_shutdown_last_only(results_) ==
    IF results_ # <<>> /\ results_[Len(results_)] # "Ok" THEN "UncleanShutdown" ELSE "Ok"

\* check_clean_shutdown: has_error is set by every Err in results
check_clean_shutdown(results_) ==
    IF \E i \in DOMAIN results_ : results_[i] # "Ok" THEN "UncleanShutdown" ELSE "Ok"

\* shutdown() returning UncleanShutdown as soon as the control service
\* handle fails to shut down
shutdown_short_circuiting ==
    /\ pc = "services"
    /\ calls' = [calls EXCEPT !.shutdown = @ + 1]
    /\ IF control_service_handle
       THEN \E succeeded \in BOOLEAN :
            /\ shutdown_results' =
                   Append(shutdown_results, map_err("ControlServiceError", succeeded))
            /\ svc' = [svc EXCEPT !["ControlService"] = IF succeeded THEN "stopped" ELSE @]
            /\ events' = Append(events, "ControlServiceHandle::shutdown")
            /\ pc' = IF succeeded THEN "try_unwrap" ELSE "shut_down"
            /\ shutdown_result' = IF succeeded THEN shutdown_result ELSE "UncleanShutdown"
       ELSE /\ pc' = "try_unwrap"
            /\ UNCHANGED <<shutdown_results, svc, events, shutdown_result>>
    /\ sole_holder' = (cm_holders = {"self"})
    /\ UNCHANGED <<instance, earlier, rng, builder_fields, given, peer_conn_config_l, outbound_sink,
                   routes_c, wiring, cm_holders, control_service_handle, build_result,
                   start_result, reclaimed, connector, connector_calls>>

\* one sub-result in the Vec that ConnectionManager::shutdown() returns
returned(succeeded) ==
    IF succeeded THEN "ConnectionManager::shutdown -> Ok"
    ELSE "ConnectionManager::shutdown -> Err"

\* shutdown(), lines 432-436: the control service handle, if any, is shut
\* down and its result pushed
shutdown ==
    /\ pc = "services"
    /\ calls' = [calls EXCEPT !.shutdown = @ + 1]
    /\ IF control_service_handle
       THEN \E succeeded \in BOOLEAN :
            /\ shutdown_results' =
                   Append(shutdown_results, map_err("ControlServiceError", succeeded))
            /\ svc' = [svc EXCEPT !["ControlService"] = IF succeeded THEN "stopped" ELSE @]
            /\ events' = Append(events, "ControlServiceHandle::shutdown")
       ELSE UNCHANGED <<shutdown_results, svc, events>>
    /\ sole_holder' = (cm_holders = {"self"})
    /\ pc' = "try_unwrap"
    /\ UNCHANGED <<instance, earlier, rng, builder_fields, given, peer_conn_config_l, outbound_sink,
                   routes_c, wiring, cm_holders, control_service_handle, results, reclaimed,
                   connector, connector_calls>>

\* lines 441-451: match Arc::try_unwrap(self.connection_manager)
shutdown_connection_manager ==
    /\ pc = "try_unwrap"
    /\ reclaimed' = try_unwrap(cm_holders)
    /\ IF reclaimed' = "Ok"
       THEN \E rs \in BoolSeqs(MaxCmResults) :
            /\ shutdown_results' = shutdown_results \o
                   [i \in 1..Len(rs) |-> map_err("ConnectionManagerError", rs[i])]
            /\ svc' = [svc EXCEPT !["ConnectionManager"] = "stopped"]
            /\ events' = Append(events, "ConnectionManager::shutdown") \o
                   [i \in 1..Len(rs) |-> returned(rs[i])]
       ELSE UNCHANGED <<shutdown_results, svc, events>>
    /\ cm_holders' = cm_holders \ {"self"}
    /\ pc' = "check_clean_shutdown"
    /\ UNCHANGED <<instance, earlier, rng, builder_fields, given, peer_conn_config_l, outbound_sink,
                   routes_c, wiring, control_service_handle, calls, results, sole_holder,
                   connector, connector_calls>>

\* line 453: Self::check_clean_shutdown(shutdown_results)
shutdown_check_clean_shutdown ==
    /\ pc = "check_clean_shutdown"
    /\ shutdown_result' = check_clean_shutdown(shutdown_results)
    /\ pc' = "shut_down"
    /\ UNCHANGED <<instance, earlier, rng, builder_fields, owned, build_result, start_result,
                   running_fields>>

\* ------------------------------------------------------- next instance
Terminal == {"build_failed", "start_failed", "shut_down"}

\* the caller constructs another node: CommsBuilder::new() again
new_instance ==
    /\ pc \in Terminal
    /\ instance < MaxInstances
    /\ instance' = instance + 1
    /\ rng' = rng
    /\ earlier' = earlier
    /\ pc' = "builder"
    /\ peer_storage_factory' = FALSE
    /\ routes' = NoRoutes
    /\ control_service_config' = FALSE
    /\ omp_config' = FALSE
    /\ node_identity' = FALSE
    /\ peer_conn_config' = None
    /\ given' = NoSlots
    /\ peer_conn_config_l' = NoAddress
    /\ outbound_sink' = NoAddress
    /\ routes_c' = {}
    /\ svc' = [s \in Services |-> "absent"]
    /\ wiring' = NoWiring
    /\ cm_holders' = {}
    /\ control_service_handle' = FALSE
    /\ build_result' = "none"
    /\ start_result' = "none"
    /\ shutdown_result' = "none"
    /\ shutdown_results' = <<>>
    /\ reclaimed' = "none"
    /\ sole_holder' = FALSE
    /\ connector' = NoConnector
    /\ connector_calls' = 0
    /\ events' = <<>>
    /\ calls' = NoCalls

\* the sink address of the given PeerConnectionConfig is an explicit one
explicit_sink(config) == config.some /\ ~is_default(config.val)

\* the caller constructs another node while it holds what build() returned
\* for the one before: CommsBuilder::new() again, in the same process
new_builder ==
    /\ pc \in {"build_failed", "container"}
    /\ instance < MaxInstances
    /\ instance' = instance + 1
    /\ rng' = rng
    /\ earlier' = IF pc = "container"
               THEN [built |-> TRUE, inbound |-> wiring.cm_sink,
                     outbound |-> wiring.oms_sink,
                     supplied |-> explicit_sink(given.peer_conn_config)]
               ELSE earlier
    /\ pc' = "builder"
    /\ peer_storage_factory' = FALSE
    /\ routes' = NoRoutes
    /\ control_service_config' = FALSE
    /\ omp_config' = FALSE
    /\ node_identity' = FALSE
    /\ peer_conn_config' = None
    /\ given' = NoSlots
    /\ peer_conn_config_l' = NoAddress
    /\ outbound_sink' = NoAddress
    /\ routes_c' = {}
    /\ svc' = [s \in Services |-> "absent"]
    /\ wiring' = NoWiring
    /\ cm_holders' = {}
    /\ control_service_handle' = FALSE
    /\ build_result' = "none"
    /\ start_result' = "none"
    /\ shutdown_result' = "none"
    /\ shutdown_results' = <<>>
    /\ reclaimed' = "none"
    /\ sole_holder' = FALSE
    /\ connector' = NoConnector
    /\ connector_calls' = 0
    /\ events' = <<>>
    /\ calls' = NoCalls

Next ==
    \/ with_routes
    \/ with_peer_storage
    \/ configure_control_service
    \/ configure_outbound_message_pool
    \/ with_node_identity
    \/ configure_peer_connections
    \/ build
    \/ build_peer_manager
    \/ build_peer_connection_config
    \/ build_control_service
    \/ build_connection_manager
    \/ build_outbound_message_service
    \/ build_outbound_message_pool
    \/ build_routes
    \/ build_inbound_message_broker
    \/ build_inbound_message_service
    \/ start
    \/ start_inbound_message_service
    \/ start_outbound_message_pool
    \/ services_create_connector
    \/ drop_connection_manager
    \/ shutdown
    \/ shutdown_connection_manager
    \/ shutdown_check_clean_shutdown
    \/ new_instance

Spec == Init /\ [][Next]_vars

\* Several nodes built in one process: the builders and build(), and the
\* sink addresses of the container built before
NextBuilds ==
    \/ with_routes
    \/ with_peer_storage
    \/ configure_control_service
    \/ configure_outbound_message_pool
    \/ with_node_identity
    \/ configure_peer_connections
    \/ build
    \/ build_peer_manager
    \/ build_peer_connection_config
    \/ build_control_service
    \/ build_connection_manager
    \/ build_outbound_message_service
    \/ build_outbound_message_pool
    \/ build_routes
    \/ build_inbound_message_broker
    \/ build_inbound_message_service
    \/ new_builder

SpecBuilds == Init /\ [][NextBuilds]_vars

\* =================================================================
\* Properties
\* =================================================================
Has(e) == \E i \in DOMAIN events : events[i] = e
Index(e) == CHOOSE i \in DOMAIN events : events[i] = e

\* build() has returned, and start() has not been called on its result
BuildReturned == pc \in {"build_failed", "container"}

\* the steps of build() after the first
BuildSteps == {"make_peer_manager", "make_peer_connection_config", "make_control_service",
               "make_connection_manager", "make_outbound_message_service",
               "make_outbound_message_pool", "take_routes",
               "make_inbound_message_broker", "make_inbound_message_service"}

\* C1: whatever else is configured, build() on a builder without a node
\* identity fails with NodeIdentityNotSet and yields no container: it stops
\* at its first statement, with nothing constructed.
C1_NoIdentityFails ==
    (calls.build = 1 /\ pc \in BuildSteps \cup {"build_failed", "container"}
         /\ ~given.node_identity)
    => /\ pc = "build_failed"
       /\ build_result = "NodeIdentityNotSet"
       /\ \A x \in Services : svc[x] = "absent"

\* C1 happens: every other slot was set and the identity was not
C1_Witness ==
    /\ pc = "build_failed"
    /\ ~given.node_identity
    /\ given.routes.some /\ given.routes.inner # {}
    /\ given.control_service_config /\ given.omp_config
    /\ given.peer_storage_factory /\ given.peer_conn_config.some
    /\ build_result = "NodeIdentityNotSet"

\* C2 as stated: build() on a builder without a route table fails with
\* RoutesNotDefined, whatever the other slots and the collaborators do.
C2_Original ==
    (BuildReturned /\ ~given.routes.some) => build_result = "RoutesNotDefined"

\* the error build() returns when no routes were given: that of the first
\* statement of build() that fails, the routes being looked at after the
\* identity, the peer manager, the outbound service and the outbound pool
C2_FirstFailure ==
    IF ~given.node_identity THEN "NodeIdentityNotSet"
    ELSE IF svc["PeerManager"] = "absent" THEN "PeerManagerError"
    ELSE IF svc["OutboundMessageService"] = "absent" THEN "OutboundMessageServiceError"
    ELSE IF svc["OutboundMessagePool"] = "absent" THEN "OutboundMessagePoolError"
    ELSE "RoutesNotDefined"

\* C2 (amended): build() on a builder without a route table never yields a
\* container; it fails with RoutesNotDefined when the identity is set and the
\* peer manager, outbound service and outbound pool were constructed, and
\* with the error of the first failing statement before that otherwise.
C2_NoRoutesFails ==
    (BuildReturned /\ ~given.routes.some)
    => /\ pc = "build_failed"
       /\ build_result = C2_FirstFailure
       /\ svc["InboundMessageBroker"] = "absent"
       /\ svc["InboundMessageService"] = "absent"

\* C2 happens: the routes are missed after everything before them succeeded
C2_Witness ==
    /\ pc = "build_failed"
    /\ ~given.routes.some
    /\ given.node_identity
    /\ svc["OutboundMessagePool"] = "constructed"
    /\ build_result = "RoutesNotDefined"

\* the services start() starts
Started == {"ControlService", "InboundMessageService", "OutboundMessagePool"}

\* the event that is a shutdown request to a started service
ShutdownRequest(x) ==
    IF x = "ControlService" THEN "ControlServiceHandle::shutdown"
    ELSE IF x = "InboundMessageService" THEN "InboundMessageService::shutdown"
    ELSE "OutboundMessagePool::shutdown"

\* C3: when shutdown() has returned, none of the services start() started
\* is still running and each of them was asked to shut down.
C3_ShutdownTerminatesAll ==
    pc = "shut_down"
    => \A x \in Started :
           /\ svc[x] # "running"
           /\ (svc[x] # "absent" => Has(ShutdownRequest(x)))

\* the recorded results: the control service handle's, if there was a
\* handle, then the connection manager's, if it was reclaimed
C4_Recorded ==
    LET n == IF control_service_handle THEN 1 ELSE 0
    IN  /\ Len(shutdown_results) >= n
        /\ control_service_handle =>
               /\ shutdown_results[1] \in {"Ok", "ControlServiceError"}
               /\ (shutdown_results[1] = "Ok") = (svc["ControlService"] = "stopped")
        /\ \A i \in (n + 1)..Len(shutdown_results) :
               shutdown_results[i] \in {"Ok", "ConnectionManagerError"}
        /\ reclaimed \in {"Ok", "Err"}
        /\ (reclaimed = "Ok") = Has("ConnectionManager::shutdown")
        /\ control_service_handle = Has("ControlServiceHandle::shutdown")
        /\ reclaimed = "Err" =>
               /\ Len(shutdown_results) = n
               /\ svc["ConnectionManager"] # "stopped"

\* C4: shutdown() returns UncleanShutdown exactly if a recorded result is a
\* failure, the recorded results being the control service handle's shutdown
\* result (if there is a handle) and the sub-results of the connection
\* manager (if it was reclaimed); a failed reclaim records nothing.
C4_UncleanIffRecordedFailure ==
    pc = "shut_down"
    => /\ C4_Recorded
       /\ shutdown_result \in {"Ok", "UncleanShutdown"}
       /\ (shutdown_result = "UncleanShutdown")
              = (\E i \in DOMAIN shutdown_results : shutdown_results[i] # "Ok")

\* C4 happens: shutdown() returns success although the reclaim failed and
\* the connection manager was never terminated
C4_Witness ==
    /\ pc = "shut_down"
    /\ shutdown_result = "Ok"
    /\ control_service_handle
    /\ reclaimed = "Err"
    /\ svc["ConnectionManager"] = "constructed"

\* C5 as stated: with a live listener and no other holder of the connection
\* manager, shutdown() returns success.
C5_Original ==
    (pc = "shut_down" /\ control_service_handle /\ sole_holder)
    => shutdown_result = "Ok"

\* C5 (amended): with a live listener and no other holder of the
\* connection manager, shutdown() shuts the listener down, reclaims the
\* connection manager and shuts it down, and returns success exactly if
\* the listener's shutdown and every sub-result of the connection manager
\* succeeded (UncleanShutdown if one of them failed).
C5_SoleHolderShutdown ==
    (pc = "shut_down" /\ control_service_handle /\ sole_holder)
    => /\ reclaimed = "Ok"
       /\ svc["ConnectionManager"] = "stopped"
       /\ Has("ControlServiceHandle::shutdown")
       /\ Len(shutdown_results) >= 1
       /\ (shutdown_result = "Ok")
              = (/\ svc["ControlService"] = "stopped"
                 /\ \A i \in 2..Len(shutdown_results) : shutdown_results[i] = "Ok")

\* C5 happens: a clean shutdown with a listener and a reclaimed manager
C5_Witness ==
    /\ pc = "shut_down"
    /\ control_service_handle
    /\ sole_holder
    /\ Len(shutdown_results) = 2
    /\ shutdown_result = "Ok"

\* C6: after a successful build() the container holds a control service
\* (the listener) exactly if a control service config was given; after a
\* successful start() CommsServices holds a handle of a running control
\* service exactly if the container held one.
C6_ListenerPresence ==
    /\ pc = "container"
       => /\ (svc["ControlService"] = "constructed") = given.control_service_config
          /\ svc["ControlService"] \in {"constructed", "absent"}
    /\ pc = "services"
       => /\ control_service_handle = Has("ControlService::new")
          /\ control_service_handle = (svc["ControlService"] = "running")
          /\ ~control_service_handle => svc["ControlService"] = "absent"

\* C6 happens: a node with a listener is running
C6_Witness ==
    /\ pc = "services"
    /\ control_service_handle
    /\ svc["ControlService"] = "running"

\* C7: if serve() of the control service fails in start() (start() was
\* called and the control service is still only constructed), start()
\* returns ControlServiceError, there is no CommsServices, and neither the
\* inbound message service nor the outbound message pool is started.
C7_ListenerFailureAborts ==
    (calls.start = 1 /\ svc["ControlService"] = "constructed")
    => /\ pc = "start_failed"
       /\ start_result = "ControlServiceError"
       /\ ~control_service_handle
       /\ svc["InboundMessageService"] = "constructed"
       /\ svc["OutboundMessagePool"] = "constructed"
       /\ ~Has("InboundMessageService::start")
       /\ ~Has("OutboundMessagePool::start")

\* C7 happens: start() failed on the listener
C7_Witness ==
    /\ pc = "start_failed"
    /\ start_result = "ControlServiceError"
    /\ svc["ControlService"] = "constructed"

\* the state of the instance, in the words of the lifecycle
LifecycleState ==
    IF pc = "builder" THEN (IF Slots = NoSlots THEN "Unconfigured" ELSE "Configured")
    ELSE IF pc \in BuildSteps THEN "Configured"
    ELSE IF pc \in {"container", "start_inbound_message_service",
                    "start_outbound_message_pool"} THEN "Constructed"
    ELSE IF pc \in {"services", "try_unwrap", "check_clean_shutdown"} THEN "Running"
    ELSE IF pc = "shut_down" THEN "ShutDown"
    ELSE "Failed"

LifecycleMoves ==
    {<<"Unconfigured", "Configured">>, <<"Configured", "Constructed">>,
     <<"Constructed", "Running">>, <<"Running", "ShutDown">>,
     <<"Unconfigured", "Failed">>, <<"Configured", "Failed">>, <<"Constructed", "Failed">>}

C8_Step ==
    instance' = instance
    => /\ \/ LifecycleState' = LifecycleState
          \/ <<LifecycleState, LifecycleState'>> \in LifecycleMoves
       /\ pc \notin Terminal
       /\ calls'.build <= 1 /\ calls'.start <= 1 /\ calls'.shutdown <= 1
       /\ calls'.build # calls.build => pc = "builder"
       /\ calls'.start # calls.start => pc = "container" /\ build_result = "Ok"
       /\ calls'.shutdown # calls.shutdown => pc = "services" /\ start_result = "Ok"
       /\ LifecycleState' = "Constructed" => calls'.build = 1
       /\ LifecycleState' = "Running" => calls'.start = 1
       /\ LifecycleState' = "ShutDown" => calls'.shutdown = 1

\* C8: an instance moves only along Unconfigured -> Configured ->
\* Constructed -> Running -> ShutDown, or to Failed from a build() or a
\* start() that fails; build(), start() and shutdown() are each called at
\* most once, start() only on the container of a successful build(),
\* shutdown() only on the services of a successful start(), and nothing
\* happens to an instance that failed or was shut down.
C8_Lifecycle == [][C8_Step]_vars

\* C8 happens: an instance went through its whole lifecycle
C8_Witness ==
    /\ pc = "shut_down"
    /\ calls = [build |-> 1, start |-> 1, shutdown |-> 1]

\* C9 as stated: create_connector succeeds for every registered message type.
C9_Original ==
    (connector.result # "none" /\ get_address(routes_c, connector.key).some)
    => connector.result = "Ok"

C9_Result ==
    connector.result # "none"
    => LET addr == get_address(routes_c, connector.key)
       IN  IF addr.some
           THEN /\ connector.bind = addr.val
                /\ connector.listen \in {"Ok", "Err"}
                /\ connector.result = IF connector.listen = "Ok" THEN "Ok"
                                      ELSE "ConnectorError"
           ELSE /\ connector.bind = NoAddress
                /\ connector.listen = "none"
                /\ connector.result = "MessageTypeNotRegistered"

C9_Distinct ==
    \A p \in routes_c, q \in routes_c : p[1] # q[1] => p[2] # q[2]

C9_Step ==
    connector_calls' = connector_calls + 1
    => /\ pc = "services" /\ pc' = pc
       /\ routes_c' = routes_c
       /\ svc' = svc /\ cm_holders' = cm_holders /\ events' = events

\* C9 (amended): on CommsServices, create_connector(k) for a registered
\* message type k binds a connector to the address the routes map k to, and
\* succeeds if that bind succeeds and fails with ConnectorError if it does
\* not; distinct registered keys have distinct addresses; for an
\* unregistered k it fails with MessageTypeNotRegistered and binds nothing;
\* either way the lifecycle state and the routes are unchanged.
C9_CreateConnector == [](C9_Result /\ C9_Distinct) /\ [][C9_Step]_vars

\* C9 happens: a connector was opened for one of two registered types
C9_Witness ==
    /\ connector.result = "Ok"
    /\ Cardinality(routes_c) >= 2
    /\ get_address(routes_c, connector.key).some

\* C10: the sink address build() resolves is the one of the given peer
\* connection config if that is not the default address, and a freshly
\* generated one (not the default, not the caller's, none of the routes',
\* not the outbound sink) if no config was given or its address is the
\* default; the connection manager is constructed with that address.
C10_SinkAddress ==
    LET c == given.peer_conn_config
        past == pc \in (BuildSteps \ {"make_peer_manager", "make_peer_connection_config"})
                       \cup {"container"}
    IN  /\ past => peer_conn_config_l # NoAddress
        /\ (pc \in BuildSteps \cup {"build_failed", "container"}
                /\ peer_conn_config_l # NoAddress)
           => /\ IF c.some /\ c.val # DefaultAddress
                 THEN peer_conn_config_l = c.val
                 ELSE /\ peer_conn_config_l \in 1..rng
                      /\ peer_conn_config_l \notin {p[2] : p \in given.routes.inner}
                      /\ peer_conn_config_l # outbound_sink
              /\ svc["ConnectionManager"] # "absent" => wiring.cm_sink = peer_conn_config_l

\* C10 happens: a container was built with the caller's own sink address
C10_Witness ==
    /\ pc = "container"
    /\ given.peer_conn_config = Some(CallerAddress)
    /\ wiring.cm_sink = CallerAddress

\* the four sink addresses of two constructions: inbound and outbound of the
\* container built before, inbound and outbound of this one
C11_Four == <<earlier.inbound, earlier.outbound, wiring.cm_sink, wiring.oms_sink>>

\* C11 as stated: in a built node the outbound sink differs from the
\* inbound sink, and across two constructions the four sink addresses are
\* pairwise distinct.
C11_Original ==
    pc = "container"
    => /\ wiring.oms_sink # wiring.cm_sink
       /\ earlier.built => \A i \in 1..4, j \in 1..4 : i # j => C11_Four[i] # C11_Four[j]

\* C11 (amended): in a built node the generated outbound sink differs from
\* the inbound sink, and across two constructions the four sink addresses
\* are pairwise distinct except that the two inbound sinks are equal when
\* the caller supplied the same explicit address to both builders.
C11_SinksDistinct ==
    pc = "container"
    => /\ wiring.oms_sink # wiring.cm_sink
       /\ wiring.oms_sink = outbound_sink /\ outbound_sink \in 1..rng
       /\ earlier.built =>
            /\ \A i \in 1..4, j \in 1..4 :
                   (i # j /\ {i, j} # {1, 3}) => C11_Four[i] # C11_Four[j]
            /\ earlier.inbound = wiring.cm_sink
               => /\ earlier.supplied
                  /\ explicit_sink(given.peer_conn_config)
                  /\ given.peer_conn_config.val = wiring.cm_sink

\* C11 happens: a second container was built, both with generated sinks
C11_Witness ==
    /\ pc = "container"
    /\ earlier.built /\ ~earlier.supplied
    /\ ~explicit_sink(given.peer_conn_config)

\* C12: when build() fails with NodeIdentityNotSet or RoutesNotDefined, no
\* service has been constructed and the storage factory was not invoked.
C12_ValidatedFirst ==
    (pc = "build_failed" /\ build_result \in {"NodeIdentityNotSet", "RoutesNotDefined"})
    => /\ \A x \in Services : svc[x] = "absent"
       /\ ~Has("Factory::make")

C13_Step ==
    /\ (~Has("ConnectionManager::shutdown") /\ Has("ConnectionManager::shutdown")')
       => /\ cm_holders = {"self"}
          /\ cm_holders' = {}
          /\ pc = "try_unwrap"
    /\ (pc = "try_unwrap" /\ pc' # pc /\ cm_holders # {"self"})
       => /\ ~Has("ConnectionManager::shutdown")'
          /\ svc'["ConnectionManager"] = svc["ConnectionManager"]
          /\ reclaimed' = "Err"

C13_State ==
    /\ svc["ConnectionManager"] = "stopped" => (cm_holders = {} /\ reclaimed = "Ok")
    /\ Has("ConnectionManager::shutdown") = (svc["ConnectionManager"] = "stopped")

\* C13: ConnectionManager::shutdown is invoked only in a step of shutdown()
\* at which self is the only holder of the Arc<ConnectionManager> (no
\* ControlService, OutboundMessagePool or other clone is left); if another
\* holder is left it is not invoked and the manager is not stopped.
C13_ExclusiveShutdown == []C13_State /\ [][C13_Step]_vars

\* C13 happens: the manager was reclaimed and shut down after the other
\* holders had dropped their clones
C13_Witness ==
    /\ pc = "check_clean_shutdown"
    /\ reclaimed = "Ok"
    /\ control_service_handle
    /\ ~sole_holder
    /\ svc["ConnectionManager"] = "stopped"

\* from the container build() returns to the end of shutdown()
ConstructedToShutDown ==
    {"container", "start_inbound_message_service", "start_outbound_message_pool",
     "services", "try_unwrap", "check_clean_shutdown", "shut_down"}

\* C14 as stated: the connection manager is shared with the listener, the
\* outbound sender and the orchestrator, and with no other service.
C14_Original ==
    pc \in ConstructedToShutDown
    => cm_holders \subseteq {"self", "ControlService", "OutboundMessageService"}

\* C14 (amended): the connection manager is shared with exactly the
\* outbound message pool (from build() on), the control service (from
\* start() on, if there is one) and the orchestrator itself; the outbound
\* message service never holds it; afterwards holders only drop out.
C14_Holders ==
    /\ pc \in ConstructedToShutDown \cup {"start_failed"}
       => /\ cm_holders \subseteq {"self", "ControlService", "OutboundMessagePool"}
          /\ "ControlService" \in cm_holders => control_service_handle
    /\ pc = "container" => cm_holders = {"self", "OutboundMessagePool"}
    /\ pc = "start_inbound_message_service"
       => cm_holders = {"self", "OutboundMessagePool"}
                           \cup (IF control_service_handle THEN {"ControlService"} ELSE {})
    /\ pc \in {"container", "start_inbound_message_service",
               "start_outbound_message_pool", "services", "try_unwrap"}
       => "self" \in cm_holders

\* C14 happens: the three holders of a node with a listener
C14_Witness ==
    /\ pc = "start_inbound_message_service"
    /\ cm_holders = {"self", "OutboundMessagePool", "ControlService"}

\* the events that start a service
IsStart(e) ==
    e \in {"ControlService::serve", "InboundMessageService::start",
           "OutboundMessagePool::start"}

StartsDone == SelectSeq(events, IsStart)

\* the starts of a successful start(), in order
StartOrder ==
    (IF Has("ControlService::new") THEN <<"ControlService::serve">> ELSE <<>>)
        \o <<"InboundMessageService::start", "OutboundMessagePool::start">>

Started_ == {"services", "try_unwrap", "check_clean_shutdown", "shut_down"}

\* C15 as stated: the control service is never live (serving, with the
\* connection manager) while the inbound message service is not started.
C15_Original ==
    svc["ControlService"] = "running" => svc["InboundMessageService"] = "running"

\* C15 (amended): start() starts the control service (if there is one),
\* then the inbound message service, then the outbound message pool, each
\* exactly once; so the control service is live before the inbound message
\* service is started, and only once start() has returned is the inbound
\* message service running whenever the control service is.
C15_StartOrder ==
    /\ Len(StartsDone) <= Len(StartOrder)
    /\ \A i \in 1..Len(StartsDone) : StartsDone[i] = StartOrder[i]
    /\ pc \in Started_
       => /\ StartsDone = StartOrder
          /\ svc["InboundMessageService"] = "running"
          /\ svc["OutboundMessagePool"] = "running"
    /\ (pc = "start_inbound_message_service" /\ Has("ControlService::new"))
       => /\ svc["ControlService"] = "running"
          /\ "ControlService" \in cm_holders
          /\ svc["InboundMessageService"] = "constructed"
    /\ pc = "start_outbound_message_pool"
       => /\ svc["InboundMessageService"] = "running"
          /\ svc["OutboundMessagePool"] = "constructed"

\* C15 happens: the control service serves, the inbound message service is
\* not started yet
C15_Witness ==
    /\ pc = "start_inbound_message_service"
    /\ svc["ControlService"] = "running"
    /\ svc["InboundMessageService"] = "constructed"
    /\ StartsDone = <<"ControlService::serve">>

IsReturned(e) == e \in {returned(TRUE), returned(FALSE)}
Returned == SelectSeq(events, IsReturned)
ListenerPart == IF control_service_handle THEN 1 ELSE 0

C16_State ==
    /\ pc \in {"try_unwrap", "check_clean_shutdown"} => shutdown_result = "none"
    /\ pc \in {"try_unwrap", "check_clean_shutdown", "shut_down"}
       => /\ control_service_handle = Has("ControlServiceHandle::shutdown")
          /\ Len(shutdown_results) >= ListenerPart
          /\ control_service_handle
             => shutdown_results[1] \in {"Ok", "ControlServiceError"}
    /\ pc \in {"check_clean_shutdown", "shut_down"}
       => /\ reclaimed \in {"Ok", "Err"}
          /\ reclaimed = "Ok"
             => /\ Has("ConnectionManager::shutdown")
                /\ control_service_handle
                   => Index("ControlServiceHandle::shutdown")
                          < Index("ConnectionManager::shutdown")
                /\ Len(shutdown_results) = ListenerPart + Len(Returned)
                /\ \A i \in DOMAIN Returned :
                       shutdown_results[ListenerPart + i] =
                           map_err("ConnectionManagerError", Returned[i] = returned(TRUE))
          /\ reclaimed = "Err"
             => /\ Len(shutdown_results) = ListenerPart
                /\ ~Has("ConnectionManager::shutdown")
    /\ pc = "shut_down"
       => shutdown_result = check_clean_shutdown(shutdown_results)

C16_Step ==
    /\ calls.shutdown' > calls.shutdown => pc' = "try_unwrap"
    /\ pc = "try_unwrap" /\ pc' # pc
       => pc' = "check_clean_shutdown" /\ shutdown_result' = "none"
    /\ pc' = "shut_down" /\ pc # pc' => pc = "check_clean_shutdown"
    /\ pc = "shut_down" => shutdown_result' = shutdown_result \/ pc' # pc

\* C16: shutdown() asks the control service handle to shut down first and,
\* whether that succeeded or failed, goes on to try_unwrap the connection
\* manager; if it gets it, every sub-result the connection manager returns is
\* pushed, in order, after the listener's; only then is the one verdict
\* computed, from all the collected results
C16_Collected == []C16_State /\ [][C16_Step]_vars

\* the listener failed to shut down, the connection manager was still
\* reclaimed and shut down, and both failures are in the collection
C16_Witness ==
    /\ pc = "shut_down"
    /\ control_service_handle
    /\ shutdown_results = <<"ControlServiceError", "ConnectionManagerError">>
    /\ reclaimed = "Ok"
    /\ shutdown_result = "UncleanShutdown"
    /\ Returned = <<returned(FALSE)>>

C17_State ==
    /\ Has("ConnectionManager::new")
       => /\ wiring.cm_sink = peer_conn_config_l
          /\ ~is_default(wiring.cm_sink)
          /\ wiring.cm_sink # NoAddress
    /\ Has("InboundMessageService::new")
       => /\ Has("ConnectionManager::new")
          /\ wiring.ims_sink = peer_conn_config_l
          /\ wiring.ims_sink = wiring.cm_sink
    /\ pc = "container" => Has("InboundMessageService::new")

C17_Step ==
    peer_conn_config_l' # peer_conn_config_l
    => /\ ~Has("ConnectionManager::new")'
       /\ ~Has("InboundMessageService::new")'
       /\ pc = "make_peer_connection_config" \/ pc' = "builder"

\* C17: the connection manager and the inbound message service of a built
\* container were constructed with the same sink address, which is the
\* resolved one (never the default address), and the resolved address is
\* written only by make_peer_connection_config, before either is constructed
C17_SameSink == []C17_State /\ [][C17_Step]_vars

\* a container built from a config left at the default address: both got the
\* generated address
C17_Witness ==
    /\ pc = "container"
    /\ given.peer_conn_config = Some(DefaultAddress)
    /\ wiring.cm_sink = wiring.ims_sink
    /\ wiring.cm_sink \in 1..rng

C18_State ==
    /\ Has("OutboundMessageService::new")
       => /\ wiring.oms_sink = outbound_sink
          /\ outbound_sink \in 1..rng
          /\ ~is_default(outbound_sink)
    /\ Has("OutboundMessagePool::new")
       => /\ Has("OutboundMessageService::new")
          /\ wiring.omp_in = outbound_sink
          /\ wiring.omp_out = outbound_sink
    /\ pc = "container" => Has("OutboundMessagePool::new")

\* the outbound sink is written once per build(), by InprocAddress::random(),
\* with a token no earlier call returned
C18_Step ==
    outbound_sink' # outbound_sink /\ pc' # "builder"
    => /\ pc = "make_outbound_message_service"
       /\ outbound_sink' = InprocAddress_random(rng)
       /\ rng' > rng
       /\ outbound_sink' > rng
       /\ outbound_sink' \notin {peer_conn_config_l, earlier.inbound, earlier.outbound} \ {CallerAddress}

\* C18: in a built container the outbound message service's sink address and
\* the two addresses given to the outbound message pool are all the one
\* address generated by build() at line 305
C18_OneOutboundSink == []C18_State /\ [][C18_Step]_vars

\* a built container whose three outbound addresses are the generated one
C18_Witness ==
    /\ pc = "container"
    /\ outbound_sink \in 1..rng
    /\ wiring.oms_sink = outbound_sink
    /\ wiring.omp_in = outbound_sink
    /\ wiring.omp_out = outbound_sink

\* the error each fallible statement of build() returns
ErrorOf ==
    [x \in {"builder", "make_peer_manager", "make_outbound_message_service",
            "make_outbound_message_pool", "take_routes", "make_inbound_message_service"} |->
        CASE x = "builder" -> "NodeIdentityNotSet"
          [] x = "make_peer_manager" -> "PeerManagerError"
          [] x = "make_outbound_message_service" -> "OutboundMessageServiceError"
          [] x = "make_outbound_message_pool" -> "OutboundMessagePoolError"
          [] x = "take_routes" -> "RoutesNotDefined"
          [] x = "make_inbound_message_service" -> "InboundMessageServiceError"]

\* the services build() constructs after the one whose failure is e, itself included
NotReached(e) ==
    CASE e = "PeerManagerError" -> Services
      [] e = "OutboundMessageServiceError" ->
             {"OutboundMessageService", "OutboundMessagePool", "InboundMessageBroker",
              "InboundMessageService"}
      [] e = "OutboundMessagePoolError" ->
             {"OutboundMessagePool", "InboundMessageBroker", "InboundMessageService"}
      [] e = "InboundMessageServiceError" -> {"InboundMessageService"}

ConstructionErrors ==
    {"PeerManagerError", "OutboundMessageServiceError", "OutboundMessagePoolError",
     "InboundMessageServiceError"}

C19_State ==
    (pc = "build_failed" /\ build_result \in ConstructionErrors)
    => /\ \A x \in NotReached(build_result) : svc[x] = "absent"
       /\ \A x \in Services \ NotReached(build_result) :
              svc[x] = "constructed" \/ (x = "ControlService" /\ svc[x] = "absent")
       /\ StartsDone = <<>>
       /\ calls.start = 0
       /\ ~control_service_handle
       /\ start_result = "none"

C19_Step ==
    /\ (pc' = "build_failed" /\ pc # pc')
       => /\ pc \in DOMAIN ErrorOf
          /\ build_result' = ErrorOf[pc]
          /\ svc' = svc
          /\ wiring' = wiring
    /\ (pc = "build_failed" /\ instance' = instance) => (pc' = pc /\ svc' = svc /\ events' = events)

\* C19: a failure of PeerManager::new, OutboundMessageService::new,
\* OutboundMessagePool::new or InboundMessageService::new makes build() return
\* at that statement with PeerManagerError, OutboundMessageServiceError,
\* OutboundMessagePoolError or InboundMessageServiceError: the failing and all
\* later services are not constructed, there is no container, and nothing
\* has been served or started
C19_FailFast == []C19_State /\ [][C19_Step]_vars

\* the pool failed after the outbound message service was constructed
C19_Witness ==
    /\ pc = "build_failed"
    /\ build_result = "OutboundMessagePoolError"
    /\ svc["OutboundMessageService"] = "constructed"
    /\ svc["OutboundMessagePool"] = "absent"
    /\ svc["InboundMessageService"] = "absent"

\* the addresses the inbound message broker routes to
RouteAddresses == {p[2] : p \in wiring.broker}

\* C20: in a built container the inbound sink address, the outbound sink
\* address and the addresses of the routes are pairwise distinct, whatever
\* peer connection config and routes the caller gave.
C20_NoReuse ==
    pc = "container"
    => /\ wiring.cm_sink # wiring.oms_sink
       /\ wiring.cm_sink \notin RouteAddresses
       /\ wiring.oms_sink \notin RouteAddresses
       /\ \A p \in wiring.broker, q \in wiring.broker : p[1] # q[1] => p[2] # q[2]

====
